---- MODULE Spec2Model ----
(***************************************************************************)
(* The Data Insights client: the Redux store (session, chart and ui        *)
(* slices), the thunks and hooks that drive it, the requests they have in  *)
(* flight, and the components that render from it.  The backend is the     *)
(* environment: it owns the sessions and answers the requests.             *)
(***************************************************************************)
EXTENDS Integers, Sequences, FiniteSets, Bags, TLC

VARIABLES
    session,                  \* state.session of the store
    chart,                    \* state.chart of the store
    ui,                       \* state.ui of the store
    inflight,                 \* bag of the requests awaiting a response
    server,                   \* the backend's sessions
    lastGeneratedSessionRef,  \* ChartViewer's useRef
    autoGenerated,            \* bag of the session ids the mounted ChartViewer's
                              \* effect has dispatched generateChart for
    dispatched,               \* what the last step dispatched to the store, in order,
                              \* with the call of exportData, the error the
                              \* interceptor was given, the download started and
                              \* the message.error shown
    budget                    \* requests and edits the run may still start

vars == <<session, chart, ui, inflight, server, lastGeneratedSessionRef, autoGenerated,
          dispatched, budget>>

----------------------------------------------------------------------------
(* Bounds of the model: the requests and edits of one run, through the     *)
(* store's hooks and reducers and through the rendered components          *)

MaxOperations == 3
MaxUIOperations == 4
MaxFailedOperations == 2
MaxRenderedOperations == 4
MaxHookOperations == 3

----------------------------------------------------------------------------
(* Values *)

\* null of a `string | null` field; null of an object-valued field
NullStr == "null"
NullObj == [null |-> TRUE]
\* `color?: string` left undefined
NoColor == "undefined"

SessionIdPool == <<"s1", "s2", "s3", "s4", "s5", "s6">>

ChartTypes == {"line", "cumulative"}
ExportFormats == {"png", "pdf", "csv", "jpeg"}
Colors == {"#111", "#222"}
SeriesNames == {"A", "B", "zz"}

\* A File: its name is held as <<stem, suffix>>, its size in bytes.
\* Files are the CSVs the model uploads; the other two are what a user may
\* also drop on the Dragger.
FileTwo == [name |-> <<"two", ".csv">>, type |-> "text/csv", size |-> 2048]
FileDup == [name |-> <<"dup", ".csv">>, type |-> "", size |-> 4096]
FileText == [name |-> <<"notes", ".txt">>, type |-> "text/plain", size |-> 2048]
FileBig == [name |-> <<"big", ".csv">>, type |-> "text/csv", size |-> 50 * 1024 * 1024]
FileLarge == [name |-> <<"large", ".csv">>, type |-> "text/csv", size |-> 50 * 1024 * 1024 - 1]
Files == {FileTwo, FileDup}
DroppedFiles == Files \cup {FileText, FileBig, FileLarge}

Series(n, c) ==
    [name |-> n, x_values |-> <<0, 30>>, y_values |-> <<10, 15>>,
     count_stat |-> <<TRUE, TRUE>>, color |-> c, visible |-> TRUE]

\* What the backend's pipeline makes of a file: two.csv holds the series A
\* and B, dup.csv two columns with the same header.
Ingest(file, sid) ==
    [session_id |-> sid,
     series |-> IF file.name = <<"two", ".csv">>
                THEN <<Series("A", "#111"), Series("B", NoColor)>>
                ELSE <<Series("A", NoColor), Series("A", "#222")>>,
     statistics |-> [p10 |-> <<10, 15>>, p50 |-> <<10, 15>>, p90 |-> <<10, 15>>],
     original_filename |-> file.name,
     created_at |-> sid]

----------------------------------------------------------------------------
(* services/api.ts: the response interceptor and the errors it is given *)

\* An AxiosError: the server answered (with or without a detail), no answer
\* came (network failure, the 30 s timeout), or the request was never sent.
NotFoundError == [response |-> TRUE, request |-> TRUE, detail |-> "Session not found", message |-> "Request failed with status code 404"]
NetworkError == [response |-> FALSE, request |-> TRUE, detail |-> "", message |-> "timeout of 30000ms exceeded"]
AxiosErrors == {NotFoundError, NetworkError}

\* The other errors the interceptor may be given: an answer with a detail, an
\* answer without one, and a request that could not be set up, with and
\* without a message
ValidationError == [response |-> TRUE, request |-> TRUE, detail |-> "Invalid CSV file", message |-> "Request failed with status code 400"]
ServerError == [response |-> TRUE, request |-> TRUE, detail |-> "", message |-> "Request failed with status code 500"]
SetupError == [response |-> FALSE, request |-> FALSE, detail |-> "", message |-> "canceled"]
SilentError == [response |-> FALSE, request |-> FALSE, detail |-> "", message |-> ""]
AllAxiosErrors == AxiosErrors \cup {ValidationError, ServerError, SetupError, SilentError}

\* The Error the interceptor throws instead; "" stands for an absent detail.
\* A faulty variant of the interceptor: the status line instead of the detail
Interceptor_statusLine(error) ==
    IF error.response
    THEN error.message
    ELSE IF error.request
         THEN "Network error. Please check your connection."
         ELSE error.message

Interceptor(error) ==
    IF error.response
    THEN (IF error.detail # "" THEN error.detail ELSE "An error occurred")
    ELSE IF error.request
         THEN "Network error. Please check your connection."
         ELSE error.message

\* error.message || fallback, in the thunks' catch blocks
OrElse(message, fallback) == IF message # "" THEN message ELSE fallback

----------------------------------------------------------------------------
(* sessionSlice *)

sessionInitialState ==
    [sessionId |-> NullStr, processedData |-> NullObj,
     isUploading |-> FALSE, uploadError |-> NullStr]

\* series.find((s) => s.name === seriesName): the first match, 0 for none
FindSeries(series, seriesName) ==
    IF \E i \in 1..Len(series) : series[i].name = seriesName
    THEN CHOOSE i \in 1..Len(series) :
            /\ series[i].name = seriesName
            /\ \A j \in 1..(i - 1) : series[j].name # seriesName
    ELSE 0

\* Faulty variants of updateSeriesVisibility: one falls back to the first
\* series when no name matches, one can hide a series but never show it
updateSeriesVisibility_orFirst(state, payload) ==
    IF state.processedData # NullObj
    THEN LET i == FindSeries(state.processedData.series, payload.seriesName)
         IN  IF i # 0
             THEN [state EXCEPT !.processedData.series[i].visible = payload.visible]
             ELSE [state EXCEPT !.processedData.series[1].visible = payload.visible]
    ELSE state

updateSeriesVisibility_hideOnly(state, payload) ==
    IF state.processedData # NullObj
    THEN LET i == FindSeries(state.processedData.series, payload.seriesName)
         IN  IF i # 0
             THEN [state EXCEPT !.processedData.series[i].visible =
                                    @ /\ payload.visible]
             ELSE state
    ELSE state

updateSeriesVisibility(state, payload) ==
    IF state.processedData # NullObj
    THEN LET i == FindSeries(state.processedData.series, payload.seriesName)
         IN  IF i # 0
             THEN [state EXCEPT !.processedData.series[i].visible = payload.visible]
             ELSE state
    ELSE state

\* A faulty variant of updateSeriesColor: every series of that name is coloured
updateSeriesColor_everyNamed(state, payload) ==
    IF state.processedData # NullObj
    THEN [state EXCEPT !.processedData.series =
            [i \in 1..Len(@) |->
                IF @[i].name = payload.seriesName
                THEN [@[i] EXCEPT !.color = payload.color]
                ELSE @[i]]]
    ELSE state

updateSeriesColor(state, payload) ==
    IF state.processedData # NullObj
    THEN LET i == FindSeries(state.processedData.series, payload.seriesName)
         IN  IF i # 0
             THEN [state EXCEPT !.processedData.series[i].color = payload.color]
             ELSE state
    ELSE state

\* A faulty variant of resetSession: the upload flag is cleared as well
resetSession_clearsFlag(state) ==
    [state EXCEPT !.sessionId = NullStr, !.processedData = NullObj,
                  !.uploadError = NullStr, !.isUploading = FALSE]

resetSession(state) ==
    [state EXCEPT !.sessionId = NullStr, !.processedData = NullObj,
                  !.uploadError = NullStr]

\* A faulty variant of uploadFile.pending: the upload is not flagged
uploadFile_pending_unflagged(state) ==
    [state EXCEPT !.uploadError = NullStr]

\* A faulty variant of uploadFile.pending: the last error is kept
uploadFile_pending_keepsError(state) ==
    [state EXCEPT !.isUploading = TRUE]

uploadFile_pending(state) ==
    [state EXCEPT !.isUploading = TRUE, !.uploadError = NullStr]

\* A faulty variant of uploadFile.fulfilled: the id is stored without its record
uploadFile_fulfilled_idOnly(state, payload) ==
    [state EXCEPT !.isUploading = FALSE,
                  !.sessionId = payload.uploadResponse.session_id,
                  !.uploadError = NullStr]

uploadFile_fulfilled(state, payload) ==
    [state EXCEPT !.isUploading = FALSE,
                  !.sessionId = payload.uploadResponse.session_id,
                  !.processedData = payload.processedData,
                  !.uploadError = NullStr]

\* A faulty variant of uploadFile.rejected: the loaded session is dropped
uploadFile_rejected_dropsSession(state, payload) ==
    [state EXCEPT !.isUploading = FALSE, !.uploadError = payload,
                  !.sessionId = NullStr, !.processedData = NullObj]

uploadFile_rejected(state, payload) ==
    [state EXCEPT !.isUploading = FALSE, !.uploadError = payload]

\* A faulty variant of deleteSession.fulfilled: the id of the session stays
deleteSession_fulfilled_keepsId(state) ==
    [state EXCEPT !.processedData = NullObj, !.uploadError = NullStr]

deleteSession_fulfilled(state) ==
    [state EXCEPT !.sessionId = NullStr, !.processedData = NullObj,
                  !.uploadError = NullStr]

----------------------------------------------------------------------------
(* chartSlice *)

chartInitialState ==
    [chartData |-> NullObj, chartConfig |-> NullObj,
     settings |-> [showLegend |-> TRUE, showDefinedPoints |-> FALSE,
                   showP10 |-> FALSE, showP50 |-> FALSE, showP90 |-> FALSE,
                   chartType |-> "line"],
     statisticsColors |-> NullObj,
     isGenerating |-> FALSE, generateError |-> NullStr]

setChartType(state, payload) == [state EXCEPT !.settings.chartType = payload]

toggleLegend(state) ==
    [state EXCEPT !.settings.showLegend = ~state.settings.showLegend]

toggleDefinedPoints(state) ==
    [state EXCEPT !.settings.showDefinedPoints = ~state.settings.showDefinedPoints]

\* A faulty variant of toggleP10: the flag is switched on, never off
toggleP10_setsOn(state) == [state EXCEPT !.settings.showP10 = TRUE]

toggleP10(state) == [state EXCEPT !.settings.showP10 = ~state.settings.showP10]

toggleP50(state) == [state EXCEPT !.settings.showP50 = ~state.settings.showP50]

toggleP90(state) == [state EXCEPT !.settings.showP90 = ~state.settings.showP90]

\* A faulty variant of resetChart: the config of the chart is kept
resetChart_dataOnly(state) ==
    [state EXCEPT !.chartData = NullObj, !.generateError = NullStr]

resetChart(state) ==
    [state EXCEPT !.chartData = NullObj, !.chartConfig = NullObj,
                  !.generateError = NullStr]

generateChart_pending(state) ==
    [state EXCEPT !.isGenerating = TRUE, !.generateError = NullStr]

\* A faulty variant of generateChart.fulfilled: the chart is not stored
generateChart_fulfilled_flagOnly(state, payload) ==
    [state EXCEPT !.isGenerating = FALSE, !.generateError = NullStr]

generateChart_fulfilled(state, payload) ==
    [state EXCEPT !.isGenerating = FALSE,
                  !.chartData = payload.chartData,
                  !.chartConfig = payload.chartConfig,
                  !.statisticsColors = payload.statisticsColors,
                  !.generateError = NullStr]

\* A faulty variant of generateChart.rejected: the chart on the page is dropped
generateChart_rejected_dropsChart(state, payload) ==
    [state EXCEPT !.isGenerating = FALSE, !.generateError = payload,
                  !.chartData = NullObj, !.chartConfig = NullObj]

\* A faulty variant of generateChart.rejected: the flag is left set
generateChart_rejected_staysBusy(state, payload) ==
    [state EXCEPT !.generateError = payload]

generateChart_rejected(state, payload) ==
    [state EXCEPT !.isGenerating = FALSE, !.generateError = payload]

getChartPreview_pending(state) ==
    [state EXCEPT !.isGenerating = TRUE, !.generateError = NullStr]

\* A faulty variant of getChartPreview.fulfilled: the config is not stored
getChartPreview_fulfilled_keepsConfig(state, payload) ==
    [state EXCEPT !.isGenerating = FALSE,
                  !.chartData = payload.chartData,
                  !.statisticsColors = payload.statisticsColors,
                  !.generateError = NullStr]

getChartPreview_fulfilled(state, payload) ==
    [state EXCEPT !.isGenerating = FALSE,
                  !.chartData = payload.chartData,
                  !.chartConfig = payload.chartConfig,
                  !.statisticsColors = payload.statisticsColors,
                  !.generateError = NullStr]

getChartPreview_rejected(state, payload) ==
    [state EXCEPT !.isGenerating = FALSE, !.generateError = payload]

\* chartSlice's case for uploadFile.fulfilled
chart_uploadFile_fulfilled(state) ==
    [state EXCEPT !.chartData = NullObj, !.chartConfig = NullObj,
                  !.generateError = NullStr, !.isGenerating = FALSE]

\* A faulty variant of the thunk's config: the series as they were fetched,
\* all visible
BuildChartConfig_allVisible(sessionState, settings) ==
    [session_id |-> sessionState.sessionId,
     chart_type |-> settings.chartType,
     show_legend |-> settings.showLegend,
     show_defined_points |-> settings.showDefinedPoints,
     show_p10 |-> settings.showP10,
     show_p50 |-> settings.showP50,
     show_p90 |-> settings.showP90,
     series_config |->
        [i \in 1..Len(sessionState.processedData.series) |->
            [name |-> sessionState.processedData.series[i].name,
             visible |-> TRUE,
             color |-> sessionState.processedData.series[i].color]]]

\* The ChartConfig the generateChart thunk builds from getState()
BuildChartConfig(sessionState, settings) ==
    [session_id |-> sessionState.sessionId,
     chart_type |-> settings.chartType,
     show_legend |-> settings.showLegend,
     show_defined_points |-> settings.showDefinedPoints,
     show_p10 |-> settings.showP10,
     show_p50 |-> settings.showP50,
     show_p90 |-> settings.showP90,
     series_config |->
        [i \in 1..Len(sessionState.processedData.series) |->
            [name |-> sessionState.processedData.series[i].name,
             visible |-> sessionState.processedData.series[i].visible,
             color |-> sessionState.processedData.series[i].color]]]

----------------------------------------------------------------------------
(* uiSlice *)

uiInitialState ==
    [isExporting |-> FALSE, exportError |-> NullStr,
     globalError |-> NullStr, sidebarCollapsed |-> FALSE]

setIsExporting(state, payload) == [state EXCEPT !.isExporting = payload]

setExportError(state, payload) == [state EXCEPT !.exportError = payload]

----------------------------------------------------------------------------
(* The backend, as the client sees it *)

\* sessions: every session created so far; deleted: the ids of those deleted
serverInitialState == [created |-> 0, sessions |-> {}, deleted |-> {}]

Live == {s.session_id : s \in server.sessions} \ server.deleted

CreatedIds == {SessionIdPool[i] : i \in 1..server.created}

StoredFile(sid) == (CHOOSE s \in server.sessions : s.session_id = sid).file

\* An operation on a session that does not exist is answered NotFound; any
\* request may also fail in another way, or get no answer at all.
MayFailWith(sid, error) ==
    \/ error # NotFoundError
    \/ error = NotFoundError /\ sid \notin Live

StatisticsColors == [p10 |-> "#a00", p50 |-> "#0a0", p90 |-> "#00a"]

DefaultChartConfig(sid) ==
    [session_id |-> sid, chart_type |-> "line", show_legend |-> TRUE,
     show_defined_points |-> FALSE, show_p10 |-> FALSE, show_p50 |-> FALSE,
     show_p90 |-> FALSE, series_config |-> <<>>]

\* The chart descriptor built for a config: opaque to the client
RenderChart(config) == [data |-> config, layout |-> [width |-> 1200, height |-> 800]]

GenerateResponse(config) ==
    [chart |-> RenderChart(config), config |-> config,
     statistics_colors |-> StatisticsColors]

PreviewResponse(sid) == GenerateResponse(DefaultChartConfig(sid))

----------------------------------------------------------------------------
(* Helpers of the actions *)

InitStore ==
    /\ session = sessionInitialState
    /\ chart = chartInitialState
    /\ ui = uiInitialState
    /\ inflight = EmptyBag
    /\ server = serverInitialState
    /\ lastGeneratedSessionRef = NullStr
    /\ autoGenerated = EmptyBag
    /\ dispatched = <<>>

Init == InitStore /\ budget = MaxOperations

InFlight == BagToSet(inflight)

Requests(kind) == {r \in InFlight : r.kind = kind}

\* A faulty variant of the hooks' check: it lets every call through
NoSession_never(sessionId) == FALSE

\* `if (!sessionId)` of the hooks
NoSession(sessionId) == sessionId = NullStr

\* App renders ChartViewer only while processedData is set: unmounting it
\* drops the ref, and the next mount starts from useRef(null).
ChartViewerRef(newSession) ==
    IF newSession.processedData = NullObj THEN NullStr ELSE lastGeneratedSessionRef

\* The effect's runs of this mount: none are left once it is unmounted
ChartViewerRuns(newSession) ==
    IF newSession.processedData = NullObj THEN EmptyBag ELSE autoGenerated

Start(request) ==
    /\ budget > 0
    /\ budget' = budget - 1
    /\ inflight' = inflight (+) SetToBag({request})

Finish(r) ==
    /\ inflight' = inflight (-) SetToBag({r})
    /\ budget' = budget

\* A Redux action, without and with a payload
Action(type) == [type |-> type]

ActionOf(type, payload) == [type |-> type, payload |-> payload]

----------------------------------------------------------------------------
(* useSession and the uploadFile / deleteSession thunks *)

\* handleUploadFile: dispatch(uploadFile(file)), up to the POST /upload/
HandleUploadFile(file) ==
    /\ Start([kind |-> "uploadFile", file |-> file, phase |-> "uploadCSV",
              session_id |-> NullStr])
    /\ session' = uploadFile_pending(session)
    /\ lastGeneratedSessionRef' = ChartViewerRef(session')
    /\ autoGenerated' = ChartViewerRuns(session')
    /\ dispatched' = <<Action("session/uploadFile/pending")>>
    /\ UNCHANGED <<chart, ui, server>>

\* POST /upload/ answered: the backend has created a session, and the thunk
\* goes on to GET /data/{session_id}
UploadCSVResponds(r) ==
    /\ r.kind = "uploadFile" /\ r.phase = "uploadCSV"
    /\ LET sid == SessionIdPool[server.created + 1]
       IN  /\ server' = [server EXCEPT
                            !.created = @ + 1,
                            !.sessions = @ \cup {[session_id |-> sid, file |-> r.file]}]
           /\ inflight' = (inflight (-) SetToBag({r})) (+)
                  SetToBag({[r EXCEPT !.phase = "getProcessedData", !.session_id = sid]})
    /\ dispatched' = <<>>
    /\ UNCHANGED <<session, chart, ui, lastGeneratedSessionRef, autoGenerated, budget>>

\* uploadFile.fulfilled, handled by both slices
GetProcessedDataResponds(r) ==
    /\ r.kind = "uploadFile" /\ r.phase = "getProcessedData"
    /\ r.session_id \in Live
    /\ LET payload ==
             [uploadResponse |-> [session_id |-> r.session_id,
                                  original_filename |-> r.file.name],
              processedData |-> Ingest(StoredFile(r.session_id), r.session_id)]
       IN  /\ session' = uploadFile_fulfilled(session, payload)
           /\ chart' = chart_uploadFile_fulfilled(chart)
    /\ lastGeneratedSessionRef' = ChartViewerRef(session')
    /\ autoGenerated' = ChartViewerRuns(session')
    /\ dispatched' = <<ActionOf("session/uploadFile/fulfilled", r.session_id)>>
    /\ Finish(r)
    /\ UNCHANGED <<ui, server>>

\* uploadFile.rejected: either request of the thunk failed
UploadFileFails(r, error) ==
    /\ r.kind = "uploadFile"
    /\ \/ r.phase = "uploadCSV" /\ error # NotFoundError
       \/ r.phase = "getProcessedData" /\ MayFailWith(r.session_id, error)
    /\ session' = uploadFile_rejected(session,
                      OrElse(Interceptor(error), "Failed to upload file"))
    /\ lastGeneratedSessionRef' = ChartViewerRef(session')
    /\ autoGenerated' = ChartViewerRuns(session')
    /\ dispatched' = <<ActionOf("apiService/error", error),
                       Action("session/uploadFile/rejected")>>
    /\ Finish(r)
    /\ UNCHANGED <<chart, ui, server>>

\* handleDeleteSession, up to the DELETE /session/{id}
HandleDeleteSession ==
    /\ ~NoSession(session.sessionId)
    /\ Start([kind |-> "deleteSession", session_id |-> session.sessionId])
    /\ dispatched' = <<Action("session/deleteSession/pending")>>
    /\ UNCHANGED <<session, chart, ui, server, lastGeneratedSessionRef, autoGenerated>>

\* deleteSession.fulfilled, then the hook's dispatch(resetChart())
DeleteSessionResponds(r) ==
    /\ r.kind = "deleteSession"
    /\ r.session_id \in Live
    /\ server' = [server EXCEPT !.deleted = @ \cup {r.session_id}]
    /\ session' = deleteSession_fulfilled(session)
    /\ chart' = resetChart(chart)
    /\ lastGeneratedSessionRef' = ChartViewerRef(session')
    /\ autoGenerated' = ChartViewerRuns(session')
    /\ dispatched' = <<ActionOf("session/deleteSession/fulfilled", r.session_id),
                       Action("chart/resetChart")>>
    /\ Finish(r)
    /\ UNCHANGED ui

\* A faulty variant of the failed delete: the hook resets the chart anyway
DeleteSessionFails_resetsChart(r, error) ==
    /\ r.kind = "deleteSession"
    /\ MayFailWith(r.session_id, error)
    /\ chart' = resetChart(chart)
    /\ dispatched' = <<ActionOf("session/deleteSession/rejected", r.session_id),
                       Action("chart/resetChart")>>
    /\ Finish(r)
    /\ UNCHANGED <<session, ui, server, lastGeneratedSessionRef, autoGenerated>>

\* deleteSession.rejected: no reducer handles it
DeleteSessionFails(r, error) ==
    /\ r.kind = "deleteSession"
    /\ MayFailWith(r.session_id, error)
    /\ dispatched' = <<ActionOf("session/deleteSession/rejected", r.session_id)>>
    /\ Finish(r)
    /\ UNCHANGED <<session, chart, ui, server, lastGeneratedSessionRef, autoGenerated>>

\* handleResetSession
HandleResetSession ==
    /\ session' = resetSession(session)
    /\ chart' = resetChart(chart)
    /\ lastGeneratedSessionRef' = ChartViewerRef(session')
    /\ autoGenerated' = ChartViewerRuns(session')
    /\ dispatched' = <<Action("session/resetSession"), Action("chart/resetChart")>>
    /\ UNCHANGED <<ui, inflight, server, budget>>

----------------------------------------------------------------------------
(* useChart and the generateChart / getChartPreview thunks *)

\* dispatch(generateChart()): pending, then the payload creator up to its
\* first await; without session data it rejects before any request
GenerateChartThunk ==
    IF NoSession(session.sessionId) \/ session.processedData = NullObj
    THEN /\ chart' = generateChart_rejected(generateChart_pending(chart),
                                            "No session data available")
         /\ dispatched' = <<Action("chart/generateChart/pending"),
                            Action("chart/generateChart/rejected")>>
         /\ UNCHANGED <<inflight, budget>>
    ELSE /\ chart' = generateChart_pending(chart)
         /\ dispatched' = <<Action("chart/generateChart/pending")>>
         /\ Start([kind |-> "generateChart",
                   config |-> BuildChartConfig(session, chart.settings)])

\* handleGenerateChart
HandleGenerateChart ==
    /\ ~NoSession(session.sessionId)
    /\ GenerateChartThunk
    /\ UNCHANGED <<session, ui, server, lastGeneratedSessionRef, autoGenerated>>

\* generateChart.fulfilled
GenerateChartResponds(r) ==
    /\ r.kind = "generateChart"
    /\ r.config.session_id \in Live
    /\ LET response == GenerateResponse(r.config)
       IN  chart' = generateChart_fulfilled(chart,
                        [chartData |-> response.chart,
                         chartConfig |-> r.config,
                         statisticsColors |-> response.statistics_colors])
    /\ dispatched' = <<Action("chart/generateChart/fulfilled")>>
    /\ Finish(r)
    /\ UNCHANGED <<session, ui, server, lastGeneratedSessionRef, autoGenerated>>

\* generateChart.rejected
GenerateChartFails(r, error) ==
    /\ r.kind = "generateChart"
    /\ MayFailWith(r.config.session_id, error)
    /\ chart' = generateChart_rejected(chart,
                    OrElse(Interceptor(error), "Failed to generate chart"))
    /\ dispatched' = <<ActionOf("apiService/error", error),
                       Action("chart/generateChart/rejected")>>
    /\ Finish(r)
    /\ UNCHANGED <<session, ui, server, lastGeneratedSessionRef, autoGenerated>>

\* handleGetPreview(sessionId)
HandleGetPreview(sid) ==
    /\ Start([kind |-> "getChartPreview", session_id |-> sid])
    /\ chart' = getChartPreview_pending(chart)
    /\ dispatched' = <<Action("chart/getChartPreview/pending")>>
    /\ UNCHANGED <<session, ui, server, lastGeneratedSessionRef, autoGenerated>>

\* getChartPreview.fulfilled
GetChartPreviewResponds(r) ==
    /\ r.kind = "getChartPreview"
    /\ r.session_id \in Live
    /\ LET response == PreviewResponse(r.session_id)
       IN  chart' = getChartPreview_fulfilled(chart,
                        [chartData |-> response.chart,
                         chartConfig |-> response.config,
                         statisticsColors |-> response.statistics_colors])
    /\ dispatched' = <<Action("chart/getChartPreview/fulfilled")>>
    /\ Finish(r)
    /\ UNCHANGED <<session, ui, server, lastGeneratedSessionRef, autoGenerated>>

\* getChartPreview.rejected
GetChartPreviewFails(r, error) ==
    /\ r.kind = "getChartPreview"
    /\ MayFailWith(r.session_id, error)
    /\ chart' = getChartPreview_rejected(chart,
                    OrElse(Interceptor(error), "Failed to get chart preview"))
    /\ dispatched' = <<ActionOf("apiService/error", error),
                       Action("chart/getChartPreview/rejected")>>
    /\ Finish(r)
    /\ UNCHANGED <<session, ui, server, lastGeneratedSessionRef, autoGenerated>>

----------------------------------------------------------------------------
(* Plain reducers dispatched on the store *)

Edit(action) ==
    /\ budget > 0
    /\ budget' = budget - 1
    /\ dispatched' = <<action>>
    /\ UNCHANGED <<ui, inflight, server>>

UpdateSeriesVisibility(seriesName, visible) ==
    LET payload == [seriesName |-> seriesName, visible |-> visible]
    IN  /\ Edit(ActionOf("session/updateSeriesVisibility", payload))
        /\ session' = updateSeriesVisibility(session, payload)
        /\ UNCHANGED <<chart, lastGeneratedSessionRef, autoGenerated>>

UpdateSeriesColor(seriesName, color) ==
    LET payload == [seriesName |-> seriesName, color |-> color]
    IN  /\ Edit(ActionOf("session/updateSeriesColor", payload))
        /\ session' = updateSeriesColor(session, payload)
        /\ UNCHANGED <<chart, lastGeneratedSessionRef, autoGenerated>>

SetChartType(chartType) ==
    /\ Edit(ActionOf("chart/setChartType", chartType))
    /\ chart' = setChartType(chart, chartType)
    /\ UNCHANGED <<session, lastGeneratedSessionRef, autoGenerated>>

ToggleLegend ==
    /\ Edit(Action("chart/toggleLegend"))
    /\ chart' = toggleLegend(chart)
    /\ UNCHANGED <<session, lastGeneratedSessionRef, autoGenerated>>

ToggleDefinedPoints ==
    /\ Edit(Action("chart/toggleDefinedPoints"))
    /\ chart' = toggleDefinedPoints(chart)
    /\ UNCHANGED <<session, lastGeneratedSessionRef, autoGenerated>>

ToggleP10 ==
    /\ Edit(Action("chart/toggleP10"))
    /\ chart' = toggleP10(chart)
    /\ UNCHANGED <<session, lastGeneratedSessionRef, autoGenerated>>

ToggleP50 ==
    /\ Edit(Action("chart/toggleP50"))
    /\ chart' = toggleP50(chart)
    /\ UNCHANGED <<session, lastGeneratedSessionRef, autoGenerated>>

ToggleP90 ==
    /\ Edit(Action("chart/toggleP90"))
    /\ chart' = toggleP90(chart)
    /\ UNCHANGED <<session, lastGeneratedSessionRef, autoGenerated>>

----------------------------------------------------------------------------
(* useExport *)

\* An optional number argument: {} when the caller left it out
Dimensions == {{}, {0}, {800}}

\* The calls of exportData(format, width, height) the model makes
ExportArgs == {<<"png", {}, {}>>, <<"csv", {0}, {800}>>, <<"jpeg", {800}, {800}>>}

\* `if (width)`: undefined and 0 are falsy
Truthy(d) == d # {} /\ d # {0}

\* The query of GET /export/{id}: a parameter that is not appended is {}
ExportParams(format, width, height) ==
    [format |-> format,
     width |-> IF Truthy(width) THEN width ELSE {},
     height |-> IF Truthy(height) THEN height ELSE {}]

\* exportData, up to the GET /export/{id}
ExportData(format, width, height) ==
    /\ ~NoSession(session.sessionId)
    /\ ui' = setExportError(setIsExporting(ui, TRUE), NullStr)
    /\ dispatched' = <<ActionOf("useExport/exportData",
                                [format |-> format, width |-> width, height |-> height]),
                       ActionOf("ui/setIsExporting", TRUE),
                       ActionOf("ui/setExportError", NullStr)>>
    /\ Start([kind |-> "exportData", session_id |-> session.sessionId,
              params |-> ExportParams(format, width, height)])
    /\ UNCHANGED <<session, chart, server, lastGeneratedSessionRef, autoGenerated>>

\* exportData: the blob arrived and is downloaded
ExportDataResponds(r) ==
    /\ r.kind = "exportData"
    /\ r.session_id \in Live
    /\ ui' = setIsExporting(ui, FALSE)
    /\ dispatched' = <<ActionOf("apiService/downloadFile", r.session_id),
                       ActionOf("ui/setIsExporting", FALSE)>>
    /\ Finish(r)
    /\ UNCHANGED <<session, chart, server, lastGeneratedSessionRef, autoGenerated>>

\* exportData: catch, then finally
ExportDataFails(r, error) ==
    /\ r.kind = "exportData"
    /\ MayFailWith(r.session_id, error)
    /\ LET errorMessage == OrElse(Interceptor(error), "Failed to export")
       IN  /\ ui' = setIsExporting(setExportError(ui, errorMessage), FALSE)
           /\ dispatched' = <<ActionOf("ui/setExportError", errorMessage),
                              ActionOf("ui/setIsExporting", FALSE)>>
    /\ Finish(r)
    /\ UNCHANGED <<session, chart, server, lastGeneratedSessionRef, autoGenerated>>

\* exportCSV, up to the GET /export/csv/{id}
ExportCSV ==
    /\ ~NoSession(session.sessionId)
    /\ ui' = setIsExporting(ui, TRUE)
    /\ dispatched' = <<ActionOf("ui/setIsExporting", TRUE)>>
    /\ Start([kind |-> "exportCSV", session_id |-> session.sessionId])
    /\ UNCHANGED <<session, chart, server, lastGeneratedSessionRef, autoGenerated>>

\* exportHTML, up to the GET /export/html/{id}
ExportHTML ==
    /\ ~NoSession(session.sessionId)
    /\ ui' = setIsExporting(ui, TRUE)
    /\ dispatched' = <<ActionOf("ui/setIsExporting", TRUE)>>
    /\ Start([kind |-> "exportHTML", session_id |-> session.sessionId])
    /\ UNCHANGED <<session, chart, server, lastGeneratedSessionRef, autoGenerated>>

\* exportCSV / exportHTML: downloaded or failed, then finally
ExportFileResponds(r) ==
    /\ r.kind \in {"exportCSV", "exportHTML"}
    /\ r.session_id \in Live
    /\ ui' = setIsExporting(ui, FALSE)
    /\ dispatched' = <<ActionOf("apiService/downloadFile", r.session_id),
                       ActionOf("ui/setIsExporting", FALSE)>>
    /\ Finish(r)
    /\ UNCHANGED <<session, chart, server, lastGeneratedSessionRef, autoGenerated>>

ExportFileFails(r, error) ==
    /\ r.kind \in {"exportCSV", "exportHTML"}
    /\ MayFailWith(r.session_id, error)
    /\ ui' = setIsExporting(ui, FALSE)
    /\ dispatched' = <<ActionOf("ui/setIsExporting", FALSE)>>
    /\ Finish(r)
    /\ UNCHANGED <<session, chart, server, lastGeneratedSessionRef, autoGenerated>>

----------------------------------------------------------------------------
(* ChartViewer *)

\* A faulty variant of the effect: it does not consult the ref
ChartViewerEffect_withoutRef ==
    /\ session.processedData # NullObj
    /\ chart.chartData = NullObj
    /\ ~chart.isGenerating
    /\ ~NoSession(session.sessionId)
    /\ lastGeneratedSessionRef' = session.sessionId
    /\ autoGenerated' = autoGenerated (+) SetToBag({session.sessionId})
    /\ GenerateChartThunk
    /\ UNCHANGED <<session, ui, server>>

\* The auto-generate effect, run after a render in which its condition holds
ChartViewerEffect ==
    /\ session.processedData # NullObj
    /\ chart.chartData = NullObj
    /\ ~chart.isGenerating
    /\ ~NoSession(session.sessionId)
    /\ lastGeneratedSessionRef # session.sessionId
    /\ lastGeneratedSessionRef' = session.sessionId
    /\ autoGenerated' = autoGenerated (+) SetToBag({session.sessionId})
    /\ GenerateChartThunk
    /\ UNCHANGED <<session, ui, server>>

----------------------------------------------------------------------------
(* The store under every call its hooks and reducers allow *)

Next ==
    \/ \E file \in Files : HandleUploadFile(file)
    \/ \E r \in InFlight : UploadCSVResponds(r)
    \/ \E r \in InFlight : GetProcessedDataResponds(r)
    \/ \E r \in InFlight, error \in AxiosErrors : UploadFileFails(r, error)
    \/ HandleDeleteSession
    \/ \E r \in InFlight : DeleteSessionResponds(r)
    \/ \E r \in InFlight, error \in AxiosErrors : DeleteSessionFails(r, error)
    \/ HandleResetSession
    \/ HandleGenerateChart
    \/ \E r \in InFlight : GenerateChartResponds(r)
    \/ \E r \in InFlight, error \in AxiosErrors : GenerateChartFails(r, error)
    \/ \E sid \in CreatedIds : HandleGetPreview(sid)
    \/ \E r \in InFlight : GetChartPreviewResponds(r)
    \/ \E r \in InFlight, error \in AxiosErrors : GetChartPreviewFails(r, error)
    \/ \E n \in SeriesNames, v \in BOOLEAN : UpdateSeriesVisibility(n, v)
    \/ \E n \in SeriesNames, c \in Colors : UpdateSeriesColor(n, c)
    \/ \E t \in ChartTypes : SetChartType(t)
    \/ ToggleLegend
    \/ ToggleDefinedPoints
    \/ ToggleP10
    \/ ToggleP50
    \/ ToggleP90
    \/ \E a \in ExportArgs : ExportData(a[1], a[2], a[3])
    \/ \E r \in InFlight : ExportDataResponds(r)
    \/ \E r \in InFlight, error \in AxiosErrors : ExportDataFails(r, error)
    \/ ExportCSV
    \/ ExportHTML
    \/ \E r \in InFlight : ExportFileResponds(r)
    \/ \E r \in InFlight, error \in AxiosErrors : ExportFileFails(r, error)
    \/ ChartViewerEffect

Spec == Init /\ [][Next]_vars

----------------------------------------------------------------------------
(* The components: what a user can do through the rendered page *)

\* A faulty variant of beforeUpload: a file of exactly 50 MiB passes
beforeUpload_inclusive(file) ==
    LET isCSV == file.type = "text/csv" \/ file.name[Len(file.name)] = ".csv"
        isLt50M == file.size <= 50 * 1024 * 1024
    IN  isCSV /\ isLt50M

\* FileUploader.beforeUpload
beforeUpload(file) ==
    LET isCSV == file.type = "text/csv" \/ file.name[Len(file.name)] = ".csv"
        isLt50M == file.size < 50 * 1024 * 1024
    IN  isCSV /\ isLt50M

\* Toolbar: const isDisabled = !processedData || isGenerating
isDisabled == session.processedData = NullObj \/ chart.isGenerating

\* The message.error beforeUpload shows for a file it refuses
beforeUploadMessage(file) ==
    IF ~(file.type = "text/csv" \/ file.name[Len(file.name)] = ".csv")
    THEN "You can only upload CSV files!"
    ELSE "File must be smaller than 50MB!"

\* FileUploader: the Dragger is rendered without processedData and is
\* disabled while uploading; customRequest runs for a file beforeUpload
\* passes, and a refused file only shows a message
DraggerUpload(file) ==
    /\ session.processedData = NullObj
    /\ ~session.isUploading
    /\ IF beforeUpload(file)
       THEN HandleUploadFile(file)
       ELSE /\ dispatched' = <<ActionOf("message/error", beforeUploadMessage(file))>>
            /\ UNCHANGED <<session, chart, ui, inflight, server,
                           lastGeneratedSessionRef, autoGenerated, budget>>

\* FileUploader: the "Upload New File" button
UploadNewFileClick ==
    /\ session.processedData # NullObj
    /\ ~session.isUploading
    /\ HandleResetSession

\* Toolbar: the "Generate Chart" button
GenerateChartClick ==
    /\ ~isDisabled
    /\ HandleGenerateChart

\* Toolbar: the chart type radio group and the five switches
ToolbarChange ==
    /\ ~isDisabled
    /\ \/ \E t \in ChartTypes : SetChartType(t)
       \/ ToggleLegend
       \/ ToggleDefinedPoints
       \/ ToggleP10
       \/ ToggleP50
       \/ ToggleP90

InitUI == InitStore /\ budget = MaxUIOperations

NextUI ==
    \/ \E file \in DroppedFiles : DraggerUpload(file)
    \/ \E r \in InFlight : UploadCSVResponds(r)
    \/ \E r \in InFlight : GetProcessedDataResponds(r)
    \/ \E r \in InFlight, error \in AxiosErrors : UploadFileFails(r, error)
    \/ UploadNewFileClick
    \/ GenerateChartClick
    \/ ToolbarChange
    \/ ChartViewerEffect
    \/ \E r \in InFlight : GenerateChartResponds(r)
    \/ \E r \in InFlight, error \in AxiosErrors : GenerateChartFails(r, error)

SpecUI == InitUI /\ [][NextUI]_vars

----------------------------------------------------------------------------
(* Vocabulary of the properties *)

\* The last step dispatched an action of this type
Did(type) == \E i \in 1..Len(dispatched) : dispatched[i].type = type

\* The payload of the action of this type the last step dispatched
PayloadOf(type) ==
    dispatched[CHOOSE i \in 1..Len(dispatched) : dispatched[i].type = type].payload

\* The requests a step sends and the requests a step sees answered
Sent == {r \in BagToSet(inflight') : CopiesIn(r, inflight') > CopiesIn(r, inflight)}

Answered == {r \in BagToSet(inflight) : CopiesIn(r, inflight) > CopiesIn(r, inflight')}

\* The session a request is about
Target(r) == IF r.kind = "generateChart" THEN r.config.session_id ELSE r.session_id

UploadStarted == Did("session/uploadFile/pending")

UploadCompleted ==
    Did("session/uploadFile/fulfilled") \/ Did("session/uploadFile/rejected")

ChartCompleted ==
    \/ Did("chart/generateChart/fulfilled") \/ Did("chart/generateChart/rejected")
    \/ Did("chart/getChartPreview/fulfilled") \/ Did("chart/getChartPreview/rejected")

\* The view state of the page, the first description that applies
View ==
    IF session.isUploading THEN "Uploading"
    ELSE IF chart.isGenerating THEN "Generating"
    ELSE IF chart.generateError # NullStr THEN "Error"
    ELSE IF session.processedData # NullObj THEN "Ready"
    ELSE "Idle"

ViewStates == {"Idle", "Uploading", "Ready", "Generating", "Error"}

----------------------------------------------------------------------------
(* C1 *)

ClaimedTransitions ==
    {<<"Idle", "Uploading">>, <<"Uploading", "Ready">>, <<"Ready", "Generating">>,
     <<"Generating", "Ready">>, <<"Generating", "Error">>}

NeverTransitions ==
    {<<"Idle", "Ready">>, <<"Idle", "Generating">>, <<"Ready", "Uploading">>}

\* C1 as stated: the view state only moves along Idle -> Uploading -> Ready
\* -> Generating -> (Ready | Error), and it leaves Uploading or Generating
\* only when the corresponding request completes.
C1_OnlyTheChain ==
    [][/\ View' # View => <<View, View'>> \in ClaimedTransitions
       /\ (View = "Uploading" /\ View' # View) => UploadCompleted'
       /\ (View = "Generating" /\ View' # View) => ChartCompleted']_vars

\* C1: through the rendered page the view state never moves Idle -> Ready,
\* Idle -> Generating or Ready -> Uploading; it leaves Uploading only when
\* the upload completes (fulfilled or rejected), and it leaves Generating only
\* when a chart request completes or when an upload starts.
C1_ViewTransitions ==
    [][/\ View' # View => <<View, View'>> \notin NeverTransitions
       /\ (View = "Uploading" /\ View' # View) => UploadCompleted'
       /\ (View = "Generating" /\ View' # View) =>
              \/ ChartCompleted'
              \/ UploadStarted' /\ View' = "Uploading"]_vars

\* A chart request has just failed and the page shows its error
C1_Witness ==
    /\ View = "Error"
    /\ Did("chart/generateChart/rejected")
    /\ session.processedData # NullObj

----------------------------------------------------------------------------
(* C2 *)

\* C2: whenever chart.chartData is set, a session is current and the stored
\* chart.chartConfig is of that session.
C2_ChartOfCurrentSession ==
    chart.chartData # NullObj =>
        /\ session.sessionId # NullStr
        /\ chart.chartConfig # NullObj
        /\ chart.chartConfig.session_id = session.sessionId

----------------------------------------------------------------------------
(* C3 *)

\* The record GET /data/{id} returned, whatever was later done to the
\* visibility and colour of its series
FetchedFor(processedData, sid) ==
    LET fetched == Ingest(StoredFile(sid), sid)
    IN  /\ processedData.session_id = sid
        /\ processedData.original_filename = fetched.original_filename
        /\ processedData.created_at = fetched.created_at
        /\ processedData.statistics = fetched.statistics
        /\ Len(processedData.series) = Len(fetched.series)
        /\ \A i \in 1..Len(fetched.series) :
              /\ processedData.series[i].name = fetched.series[i].name
              /\ processedData.series[i].x_values = fetched.series[i].x_values
              /\ processedData.series[i].y_values = fetched.series[i].y_values
              /\ processedData.series[i].count_stat = fetched.series[i].count_stat

\* C3: sessionId is null iff processedData is null, and when they are set
\* processedData is the record fetched for exactly that sessionId.
C3_SessionVisibleAtomically ==
    /\ session.sessionId = NullStr <=> session.processedData = NullObj
    /\ session.sessionId # NullStr =>
          /\ session.sessionId \in CreatedIds
          /\ FetchedFor(session.processedData, session.sessionId)

\* Two uploads overlapped and the later one was fulfilled first: the chart
\* was auto-generated for s2 before the upload of s1 was fulfilled
C3_Witness ==
    /\ session.sessionId = "s1"
    /\ lastGeneratedSessionRef = "s2"
    /\ Did("session/uploadFile/fulfilled")

----------------------------------------------------------------------------
(* C4 *)

Succeeded ==
    \/ Did("session/uploadFile/fulfilled")
    \/ Did("chart/generateChart/fulfilled")
    \/ Did("chart/getChartPreview/fulfilled")
    \/ Did("apiService/downloadFile")

\* C4: a fulfilled deleteSession leaves sessionId and processedData null; a
\* deleted session is never the current one; generateChart and the exports
\* send a request only for the current session, so none without a session
\* and none for a deleted one; and no request about a deleted session that
\* reaches the server is answered with success.
C4_DeletedSessionIsGone ==
    [][/\ Did("session/deleteSession/fulfilled")' =>
              session'.sessionId = NullStr /\ session'.processedData = NullObj
       /\ session'.sessionId \notin server'.deleted
       /\ \A r \in Sent :
              r.kind \in {"generateChart", "exportData", "exportCSV", "exportHTML"} =>
                  /\ session.sessionId # NullStr
                  /\ Target(r) = session.sessionId
                  /\ Target(r) \notin server.deleted
       /\ \A r \in Answered :
              (r.kind # "deleteSession" /\ Target(r) \in server.deleted) =>
                  ~Succeeded']_vars

\* A chart request for a session that was deleted meanwhile got NotFound
C4_Witness ==
    /\ server.deleted # {}
    /\ session.sessionId = NullStr
    /\ Did("chart/generateChart/rejected")
    /\ chart.generateError = "Session not found"

----------------------------------------------------------------------------
(* C5 *)

\* C5: no step of an upload that ends rejected (its start, the answer to
\* POST /upload/, its rejection) changes sessionId, processedData or the
\* chart slice, and the rejection changes nothing of the session slice but
\* isUploading, now false, and uploadError, now the error's message.
C5_RejectedUploadCommitsNothing ==
    [][(\/ UploadStarted'
        \/ Did("session/uploadFile/rejected")'
        \/ \E r \in Answered : r.kind = "uploadFile" /\ r.phase = "uploadCSV") =>
          /\ session'.sessionId = session.sessionId
          /\ session'.processedData = session.processedData
          /\ chart' = chart
          /\ ui' = ui
          /\ Did("session/uploadFile/rejected")' =>
                /\ session' = [session EXCEPT !.isUploading = FALSE,
                                              !.uploadError = session'.uploadError]
                /\ ~session'.isUploading
                /\ session'.uploadError \in
                      {"Session not found",
                       "Network error. Please check your connection."}]_vars

\* An upload was rejected while a session and its chart were on the page
C5_Witness ==
    /\ Did("session/uploadFile/rejected")
    /\ session.uploadError # NullStr
    /\ session.processedData # NullObj
    /\ chart.chartData # NullObj

----------------------------------------------------------------------------
(* C6 *)

ChartRequestStarted ==
    Did("chart/generateChart/pending") \/ Did("chart/getChartPreview/pending")

ChartRequestRejected ==
    Did("chart/generateChart/rejected") \/ Did("chart/getChartPreview/rejected")

\* C6: neither the start nor the rejection of generateChart or
\* getChartPreview changes chartData, chartConfig, statisticsColors, settings
\* or the session slice, and the rejection changes nothing of the chart
\* slice but isGenerating, now false, and generateError, now set.
C6_RejectedChartCommitsNothing ==
    [][(ChartRequestStarted' \/ ChartRequestRejected') =>
          /\ chart'.chartData = chart.chartData
          /\ chart'.chartConfig = chart.chartConfig
          /\ chart'.statisticsColors = chart.statisticsColors
          /\ chart'.settings = chart.settings
          /\ session' = session
          /\ ChartRequestRejected' =>
                /\ chart' = [chart EXCEPT !.isGenerating = FALSE,
                                          !.generateError = chart'.generateError]
                /\ ~chart'.isGenerating
                /\ chart'.generateError # NullStr]_vars

\* A chart request was rejected while an earlier chart was on the page
C6_Witness ==
    /\ ChartRequestRejected
    /\ chart.generateError # NullStr
    /\ chart.chartData # NullObj
    /\ ~chart.isGenerating

----------------------------------------------------------------------------
(* C7 *)

\* C7: every generateChart request sent carries the session id, the chart
\* type and the five flags of the state it was dispatched in, and one
\* series_config entry per series of processedData, in order, with that
\* series' name, visible and color.
C7_ConfigBuiltAtDispatch ==
    [][\A r \in Sent : r.kind = "generateChart" =>
          /\ session.processedData # NullObj
          /\ r.config.session_id = session.sessionId
          /\ r.config.chart_type = chart.settings.chartType
          /\ r.config.show_legend = chart.settings.showLegend
          /\ r.config.show_defined_points = chart.settings.showDefinedPoints
          /\ r.config.show_p10 = chart.settings.showP10
          /\ r.config.show_p50 = chart.settings.showP50
          /\ r.config.show_p90 = chart.settings.showP90
          /\ Len(r.config.series_config) = Len(session.processedData.series)
          /\ \A i \in 1..Len(session.processedData.series) :
                /\ DOMAIN r.config.series_config[i] = {"name", "visible", "color"}
                /\ r.config.series_config[i].name = session.processedData.series[i].name
                /\ r.config.series_config[i].visible = session.processedData.series[i].visible
                /\ r.config.series_config[i].color = session.processedData.series[i].color]_vars

\* A request in flight whose config reflects an earlier visibility update
C7_Witness ==
    \E r \in Requests("generateChart") :
        /\ r.config.session_id = session.sessionId
        /\ \E i \in 1..Len(r.config.series_config) :
              ~r.config.series_config[i].visible

----------------------------------------------------------------------------
(* C8 *)

SeriesUpdates == {"session/updateSeriesVisibility", "session/updateSeriesColor"}

\* The step dispatched a series update whose name matches no series
UnmatchedUpdate ==
    \E type \in SeriesUpdates :
        /\ Did(type)'
        /\ \/ session.processedData = NullObj
           \/ \A i \in 1..Len(session.processedData.series) :
                 session.processedData.series[i].name # PayloadOf(type)'.seriesName

\* C8: a series update naming no series of processedData, or dispatched
\* while processedData is null, leaves the session slice unchanged and sets
\* no error anywhere in the store.
C8_UnmatchedUpdateIsNoOp ==
    [][UnmatchedUpdate => session' = session /\ chart' = chart /\ ui' = ui]_vars

\* An update for the unknown series "zz" was dispatched on a loaded session
C8_Witness ==
    /\ Did("session/updateSeriesVisibility")
    /\ PayloadOf("session/updateSeriesVisibility").seriesName = "zz"
    /\ session.processedData # NullObj
    /\ session.uploadError = NullStr

----------------------------------------------------------------------------
(* C9 *)

\* The position of the first series with this name
FirstNamed(series, name) ==
    CHOOSE i \in 1..Len(series) :
        /\ series[i].name = name
        /\ \A j \in 1..(i - 1) : series[j].name # name

Named(name) ==
    /\ session.processedData # NullObj
    /\ \E i \in 1..Len(session.processedData.series) :
          session.processedData.series[i].name = name

----------------------------------------------------------------------------
(* C10 *)

\* The series updates: the reducer to apply and its payload
VisibilityUpdates ==
    {[field |-> "visible", seriesName |-> n, visible |-> v] :
        n \in SeriesNames, v \in BOOLEAN}

ColorUpdates ==
    {[field |-> "color", seriesName |-> n, color |-> c] :
        n \in SeriesNames, c \in Colors}

Apply(update, state) ==
    IF update.field = "visible"
    THEN updateSeriesVisibility(state,
            [seriesName |-> update.seriesName, visible |-> update.visible])
    ELSE updateSeriesColor(state,
            [seriesName |-> update.seriesName, color |-> update.color])

\* The value an update writes, and the value a state holds in that field
Written(update) ==
    IF update.field = "visible" THEN <<update.visible>> ELSE <<update.color>>

Held(update, state) ==
    LET series == state.processedData.series
        i == FirstNamed(series, update.seriesName)
    IN  IF update.field = "visible" THEN <<series[i].visible>> ELSE <<series[i].color>>

\* The update a step dispatched
Dispatched(type) ==
    LET payload == PayloadOf(type)
    IN  IF type = "session/updateSeriesVisibility"
        THEN [field |-> "visible", seriesName |-> payload.seriesName,
              visible |-> payload.visible]
        ELSE [field |-> "color", seriesName |-> payload.seriesName,
              color |-> payload.color]

\* C10: a series update is one step of the store, the reducer applied once;
\* it gives the same state before or after any other update that names a
\* different series or a different field; and an update of the same field
\* of the same series applied after it decides the value of that field.
C10_SerializedLastWins ==
    [][\A type \in SeriesUpdates : Did(type)' =>
          LET p == Dispatched(type)'
          IN  /\ session' = Apply(p, session)
              /\ \A q \in VisibilityUpdates \cup ColorUpdates :
                    /\ (p.seriesName # q.seriesName \/ p.field # q.field) =>
                          Apply(q, session') = Apply(p, Apply(q, session))
                    /\ (p.seriesName = q.seriesName /\ p.field = q.field
                            /\ Named(p.seriesName)) =>
                          /\ Held(p, session') = Written(p)
                          /\ Held(q, Apply(q, session')) = Written(q)]_vars

\* Two updates were applied to the first series: it is hidden and recoloured
C10_Witness ==
    /\ session.processedData # NullObj
    /\ ~session.processedData.series[1].visible
    /\ session.processedData.series[1].color = "#222"
    /\ session.processedData.series[1].name = "A"
    /\ session.processedData.series[2].name = "B"

----------------------------------------------------------------------------
(* C11 *)

\* The step is a run of ChartViewer's effect
AutomaticStep ==
    \E sid \in BagToSet(autoGenerated') :
        CopiesIn(sid, autoGenerated') > CopiesIn(sid, autoGenerated)

RequestRejected ==
    \/ Did("session/uploadFile/rejected")
    \/ Did("chart/generateChart/rejected")
    \/ Did("chart/getChartPreview/rejected")
    \/ Did("session/deleteSession/rejected")
    \/ Did("ui/setExportError") /\ PayloadOf("ui/setExportError") # NullStr

\* C11: the step in which a request is answered or rejected sends no
\* request, but for the GET /data/{id} that follows an answered POST
\* /upload/; and ChartViewer's effect dispatches generateChart for a session
\* id at most once while it is mounted, each time with one request for the
\* current session.
C11_NoAutomaticRetries ==
    [][/\ \A r \in Sent : Answered # {} =>
              /\ r.kind = "uploadFile" /\ r.phase = "getProcessedData"
              /\ \E a \in Answered :
                    a.kind = "uploadFile" /\ a.phase = "uploadCSV" /\ a.file = r.file
       /\ RequestRejected' => Sent = {}
       /\ AutomaticStep =>
              /\ CopiesIn(session.sessionId, autoGenerated') = 1
              /\ \A r \in Sent :
                    r.kind = "generateChart" /\ Target(r) = session.sessionId
              /\ \A r \in Sent : CopiesIn(r, inflight') = CopiesIn(r, inflight) + 1]_vars

\* An automatic generation failed and the effect could run again, but for
\* the ref
C11_Witness ==
    /\ Did("chart/generateChart/rejected")
    /\ BagIn(session.sessionId, autoGenerated)
    /\ chart.chartData = NullObj
    /\ ~chart.isGenerating
    /\ session.processedData # NullObj
    /\ budget > 0

----------------------------------------------------------------------------
(* C12 *)

\* 50 MiB in bytes
UploadLimit == 52428800

Acceptable(file) ==
    /\ file.type = "text/csv" \/ file.name[Len(file.name)] = ".csv"
    /\ file.size < UploadLimit

----------------------------------------------------------------------------
(* The upload and the chart requests under every error of the interceptor *)

InitFailures == InitStore /\ budget = MaxFailedOperations

NextFailures ==
    \/ \E file \in Files : HandleUploadFile(file)
    \/ \E r \in InFlight : UploadCSVResponds(r)
    \/ \E r \in InFlight : GetProcessedDataResponds(r)
    \/ \E r \in InFlight, error \in AllAxiosErrors : UploadFileFails(r, error)
    \/ HandleGenerateChart
    \/ \E r \in InFlight : GenerateChartResponds(r)
    \/ \E r \in InFlight, error \in AllAxiosErrors : GenerateChartFails(r, error)
    \/ \E sid \in CreatedIds : HandleGetPreview(sid)
    \/ \E r \in InFlight : GetChartPreviewResponds(r)
    \/ \E r \in InFlight, error \in AllAxiosErrors : GetChartPreviewFails(r, error)

SpecFailures == InitFailures /\ [][NextFailures]_vars

----------------------------------------------------------------------------
(* C13 *)

\* What the user is to see for an error, given the thunk's fallback text
Shown(error, fallback) ==
    IF error.response
    THEN (IF error.detail = "" THEN "An error occurred" ELSE error.detail)
    ELSE IF error.request
         THEN "Network error. Please check your connection."
         ELSE IF error.message = "" THEN fallback ELSE error.message

\* C13: a rejected upload stores in uploadError, and a rejected chart
\* request in generateError, the detail of the server's answer, 'An error
\* occurred' for an answer without detail, the network message when no
\* answer came, else the error's message, and the thunk's fallback text only
\* when that message is empty.
C13_ErrorsShownAsDetail ==
    [][/\ Did("session/uploadFile/rejected")' =>
              session'.uploadError =
                  Shown(PayloadOf("apiService/error")', "Failed to upload file")
       /\ Did("chart/generateChart/rejected")' =>
              chart'.generateError =
                  Shown(PayloadOf("apiService/error")', "Failed to generate chart")
       /\ Did("chart/getChartPreview/rejected")' =>
              chart'.generateError =
                  Shown(PayloadOf("apiService/error")', "Failed to get chart preview")]_vars

\* A chart request failed with an error that has no message
C13_Witness ==
    /\ Did("chart/generateChart/rejected")
    /\ PayloadOf("apiService/error") = SilentError
    /\ chart.generateError = "Failed to generate chart"

----------------------------------------------------------------------------
(* C14 *)

\* C14: every GET /export/{session_id} that exportData sends has a format
\* among png, pdf and jpeg, and has width and height exactly when the
\* caller gave them, with the caller's values.
C14_ExportParameters ==
    [][\A r \in Sent : r.kind = "exportData" =>
          LET call == PayloadOf("useExport/exportData")'
          IN  /\ r.params.format \in {"png", "pdf", "jpeg"}
              /\ r.params.width = call.width
              /\ r.params.height = call.height]_vars

----------------------------------------------------------------------------
(* C15 *)

\* The chart requests awaiting a response, and how many they are
ChartRequests == Requests("generateChart") \cup Requests("getChartPreview")

RECURSIVE Copies(_)
Copies(requests) ==
    IF requests = {} THEN 0
    ELSE LET r == CHOOSE r \in requests : TRUE
         IN  CopiesIn(r, inflight) + Copies(requests \ {r})

\* C15: at most one chart request is in flight at any time.
C15_OneChartRequest == Copies(ChartRequests) <= 1

----------------------------------------------------------------------------
(* C16 *)

\* C16: chart.isGenerating is true exactly while a generateChart or
\* getChartPreview request is in flight.
C16_GeneratingIffInFlight == chart.isGenerating <=> ChartRequests # {}

----------------------------------------------------------------------------
(* The page as React schedules it: the effects of a render run before the  *)
(* next event or response is handled, and every request is answered        *)

\* The last render left ChartViewer's effect to run
EffectPending ==
    /\ session.processedData # NullObj
    /\ chart.chartData = NullObj
    /\ ~chart.isGenerating
    /\ ~NoSession(session.sessionId)
    /\ lastGeneratedSessionRef # session.sessionId

\* A response or an error arrives for some request
Completion ==
    \/ \E r \in InFlight : UploadCSVResponds(r)
    \/ \E r \in InFlight : GetProcessedDataResponds(r)
    \/ \E r \in InFlight, error \in AxiosErrors : UploadFileFails(r, error)
    \/ \E r \in InFlight : GenerateChartResponds(r)
    \/ \E r \in InFlight, error \in AxiosErrors : GenerateChartFails(r, error)

InitRendered == InitStore /\ budget = MaxRenderedOperations

\* A drop leaves room for the generation that follows its upload
NextRendered ==
    \/ ~EffectPending /\ budget > 1 /\ \E file \in DroppedFiles : DraggerUpload(file)
    \/ ~EffectPending /\ UploadNewFileClick
    \/ ~EffectPending /\ GenerateChartClick
    \/ ~EffectPending /\ ToolbarChange
    \/ ~EffectPending /\ Completion
    \/ ChartViewerEffect

SpecRendered ==
    /\ InitRendered
    /\ [][NextRendered]_vars
    /\ WF_vars(ChartViewerEffect)
    /\ WF_vars(~EffectPending /\ Completion)

----------------------------------------------------------------------------
(* C17 *)

RenderedIds == {SessionIdPool[i] : i \in 1..3}

\* The upload of this session has just been fulfilled
Loaded(sid) ==
    /\ Did("session/uploadFile/fulfilled")
    /\ session.sessionId = sid
    /\ session.processedData # NullObj
    /\ chart.chartData = NullObj
    /\ ~chart.isGenerating

\* ChartViewer's effect has just dispatched generateChart for this session
AutoDispatched(sid) ==
    /\ Did("chart/generateChart/pending")
    /\ lastGeneratedSessionRef = sid
    /\ BagIn(sid, autoGenerated)
    /\ \E r \in Requests("generateChart") : r.config.session_id = sid

ChartOrError(sid) ==
    \/ chart.chartData # NullObj /\ chart.chartConfig.session_id = sid
    \/ chart.generateError # NullStr

\* C17: a fulfilled upload leads, with no user action in between, to
\* ChartViewer's effect dispatching generateChart for the new session, and
\* that leads to chartData holding a chart of that session or to
\* generateError being set.
C17_ChartGeneratedOnLoad ==
    \A sid \in RenderedIds :
        /\ Loaded(sid) ~> AutoDispatched(sid)
        /\ AutoDispatched(sid) ~> ChartOrError(sid)

\* The chart of a second upload was generated automatically and is shown
C17_Witness ==
    /\ session.sessionId = "s2"
    /\ BagIn("s2", autoGenerated)
    /\ Did("chart/generateChart/fulfilled")
    /\ chart.chartData # NullObj
    /\ chart.chartConfig.session_id = "s2"

----------------------------------------------------------------------------
(* C18 *)

\* C18: once no request is in flight, isUploading, isGenerating and
\* isExporting are all false.
C18_NoFlagStuck ==
    inflight = EmptyBag =>
        ~session.isUploading /\ ~chart.isGenerating /\ ~ui.isExporting

\* The last of the requests has just failed, after the session was left
C18_Witness ==
    /\ inflight = EmptyBag
    /\ Did("chart/generateChart/rejected")
    /\ session.sessionId = NullStr
    /\ server.created > 0

----------------------------------------------------------------------------
(* C19 *)

\* C19: isUploading implies uploadError is null, and isGenerating implies
\* generateError is null.
C19_FlagExcludesError ==
    /\ session.isUploading => session.uploadError = NullStr
    /\ chart.isGenerating => chart.generateError = NullStr

\* An upload was started while a chart was being generated for a loaded
\* session: both flags are set
C19_Witness ==
    /\ session.isUploading
    /\ UploadStarted
    /\ chart.isGenerating
    /\ session.processedData # NullObj

----------------------------------------------------------------------------
(* C20 *)

ChartFulfilled ==
    Did("chart/generateChart/fulfilled") \/ Did("chart/getChartPreview/fulfilled")

\* C20: after every step chartData is null iff chartConfig is null; a
\* fulfilled generateChart stores the chart of the response with the config
\* of its request, a fulfilled getChartPreview the chart and the config of
\* the response; and no other step changes one of the two but to clear both.
C20_ChartWithItsConfig ==
    [][/\ chart'.chartData = NullObj <=> chart'.chartConfig = NullObj
       /\ Did("chart/generateChart/fulfilled")' =>
              \E r \in Answered :
                  /\ r.kind = "generateChart"
                  /\ chart'.chartConfig = r.config
                  /\ chart'.chartData = GenerateResponse(r.config).chart
       /\ Did("chart/getChartPreview/fulfilled")' =>
              \E r \in Answered :
                  /\ r.kind = "getChartPreview"
                  /\ chart'.chartConfig = PreviewResponse(r.session_id).config
                  /\ chart'.chartData = PreviewResponse(r.session_id).chart
       /\ (~ChartFulfilled' /\ <<chart'.chartData, chart'.chartConfig>>
                                  # <<chart.chartData, chart.chartConfig>>) =>
              chart'.chartData = NullObj /\ chart'.chartConfig = NullObj]_vars

\* The chart shown was generated with a chart type chosen before
C20_Witness ==
    /\ Did("chart/generateChart/fulfilled")
    /\ chart.chartData # NullObj
    /\ chart.chartConfig # NullObj
    /\ chart.chartConfig.chart_type = "cumulative"

-----------------------------------------------------------------------------
(* C21: sessions the server created and the client never recorded *)

\* The uploads a step completes whose POST /upload/ had succeeded: the
\* request is at its GET /data/{id}, and carries the id the server returned
CreatedUploads ==
    {r \in Answered : r.kind = "uploadFile" /\ r.phase = "getProcessedData"}

\* C21: whenever POST /upload/ succeeded with session id s, the step that
\* completes the uploadFile thunk leaves session.sessionId = s, so that no
\* session the server created goes unrecorded by the client.
C21_CreatedSessionRecorded ==
    [][\A r \in CreatedUploads :
           /\ r.session_id \in CreatedIds
           /\ UploadCompleted' => session'.sessionId = r.session_id]_vars

-----------------------------------------------------------------------------
(* C22: "Upload New File" resets the client only *)

\* C22: a step that dispatches resetSession (with resetChart) sets sessionId,
\* processedData, uploadError, chartData, chartConfig and generateError to
\* null and changes nothing else of the store: isUploading, isGenerating,
\* chart.settings and statisticsColors are kept; it sends no request and
\* leaves the server as it is; and a session of the server stops living only
\* in a step that answers a DELETE for it.
C22_ResetIsLocal ==
    [][/\ Did("session/resetSession")' =>
              /\ session' = [session EXCEPT !.sessionId = NullStr,
                                            !.processedData = NullObj,
                                            !.uploadError = NullStr]
              /\ chart' = [chart EXCEPT !.chartData = NullObj,
                                        !.chartConfig = NullObj,
                                        !.generateError = NullStr]
              /\ ui' = ui
              /\ Sent = {} /\ Answered = {}
              /\ server' = server
       /\ \A sid \in Live :
              sid \notin Live' =>
                  \E r \in Answered : r.kind = "deleteSession" /\ r.session_id = sid]_vars

\* A reset while a chart request is in flight, after a chart was shown: the
\* session stays alive on the server, the flag and the colours are kept
C22_Witness ==
    /\ Did("session/resetSession")
    /\ session.sessionId = NullStr
    /\ chart.isGenerating
    /\ chart.statisticsColors # NullObj
    /\ Live # {}

-----------------------------------------------------------------------------
(* C23: the display toggles *)

ToggleFlags == {"showLegend", "showDefinedPoints", "showP10", "showP50", "showP90"}

\* The reducer that toggles a flag, the type of its action, and the field of
\* the ChartConfig that generateChart fills from the flag
Toggled(flag, state) ==
    CASE flag = "showLegend" -> toggleLegend(state)
      [] flag = "showDefinedPoints" -> toggleDefinedPoints(state)
      [] flag = "showP10" -> toggleP10(state)
      [] flag = "showP50" -> toggleP50(state)
      [] flag = "showP90" -> toggleP90(state)

ToggleType(flag) ==
    CASE flag = "showLegend" -> "chart/toggleLegend"
      [] flag = "showDefinedPoints" -> "chart/toggleDefinedPoints"
      [] flag = "showP10" -> "chart/toggleP10"
      [] flag = "showP50" -> "chart/toggleP50"
      [] flag = "showP90" -> "chart/toggleP90"

ConfigField(flag) ==
    CASE flag = "showLegend" -> "show_legend"
      [] flag = "showDefinedPoints" -> "show_defined_points"
      [] flag = "showP10" -> "show_p10"
      [] flag = "showP50" -> "show_p50"
      [] flag = "showP90" -> "show_p90"

\* C23: a step that dispatches one of the five toggles flips exactly that
\* flag of chart.settings and leaves the rest of the chart slice, the session
\* slice and the ui slice unchanged and sends nothing; applying the toggle
\* once more gives the state before; the toggle commutes with each of the
\* five; and the ChartConfig generateChart would build after the step is the
\* one it would have built before with only that flag's field inverted.
C23_ToggleOnlyItsFlag ==
    [][\A flag \in ToggleFlags :
           Did(ToggleType(flag))' =>
               /\ chart' = [chart EXCEPT !.settings[flag] = ~chart.settings[flag]]
               /\ session' = session /\ ui' = ui
               /\ Sent = {} /\ Answered = {}
               /\ Toggled(flag, chart') = chart
               /\ \A other \in ToggleFlags :
                      Toggled(other, Toggled(flag, chart))
                          = Toggled(flag, Toggled(other, chart))
               /\ session.processedData # NullObj =>
                      BuildChartConfig(session', chart'.settings)
                          = [BuildChartConfig(session, chart.settings)
                                 EXCEPT ![ConfigField(flag)] = ~@]]_vars

\* P10 was switched on after the legend had been switched off
C23_Witness ==
    /\ Did("chart/toggleP10")
    /\ chart.settings.showP10
    /\ ~chart.settings.showLegend
    /\ session.processedData # NullObj

-----------------------------------------------------------------------------
(* C24: the chart preview *)

\* C24: a step that dispatches getChartPreview.fulfilled answers a preview
\* request and stores the chart, the config and the statistics colours of the
\* response for the id that request was made with; the config is the
\* server's default one for that id and the chart is the chart of that
\* config; chart.settings and the session slice are as before the step.
C24_PreviewOfDefaultConfig ==
    [][Did("chart/getChartPreview/fulfilled")' =>
           \E r \in Answered :
               /\ r.kind = "getChartPreview"
               /\ LET response == PreviewResponse(r.session_id)
                  IN  chart' = [chart EXCEPT
                                    !.isGenerating = FALSE,
                                    !.chartData = response.chart,
                                    !.chartConfig = response.config,
                                    !.statisticsColors = response.statistics_colors,
                                    !.generateError = NullStr]
               /\ chart'.chartConfig = DefaultChartConfig(r.session_id)
               /\ chart'.chartData = RenderChart(chart'.chartConfig)
               /\ chart'.settings = chart.settings
               /\ session' = session]_vars

\* The preview is a line chart while the local settings ask for a
\* cumulative one: the stored config is the one of the chart shown
C24_Witness ==
    /\ Did("chart/getChartPreview/fulfilled")
    /\ chart.settings.chartType = "cumulative"
    /\ chart.chartConfig.chart_type = "line"
    /\ chart.chartData = RenderChart(chart.chartConfig)
    /\ session.sessionId # NullStr

-----------------------------------------------------------------------------
(* The hooks called without a session, and the thunk dispatched directly *)

\* handleGenerateChart with sessionId null: message.error, then return
GenerateChartWithoutSession ==
    /\ NoSession(session.sessionId)
    /\ dispatched' = <<ActionOf("message/error",
                          "No session available. Please upload a file first.")>>
    /\ UNCHANGED <<session, chart, ui, inflight, server, lastGeneratedSessionRef,
                   autoGenerated, budget>>

\* exportData / exportCSV / exportHTML with sessionId null
ExportWithoutSession(hook) ==
    /\ NoSession(session.sessionId)
    /\ dispatched' = <<ActionOf("message/error", "No session available"),
                       ActionOf("useExport/return", hook)>>
    /\ UNCHANGED <<session, chart, ui, inflight, server, lastGeneratedSessionRef,
                   autoGenerated, budget>>

\* handleDeleteSession with sessionId null: message.warning, then return
DeleteWithoutSession ==
    /\ NoSession(session.sessionId)
    /\ dispatched' = <<ActionOf("message/warning", "No active session to delete")>>
    /\ UNCHANGED <<session, chart, ui, inflight, server, lastGeneratedSessionRef,
                   autoGenerated, budget>>

\* store.dispatch(generateChart()), not through the hook
DispatchGenerateChart ==
    /\ GenerateChartThunk
    /\ UNCHANGED <<session, ui, server, lastGeneratedSessionRef, autoGenerated>>

InitHooks == InitStore /\ budget = MaxHookOperations

NextHooks ==
    \/ \E file \in Files : HandleUploadFile(file)
    \/ \E r \in InFlight : UploadCSVResponds(r)
    \/ \E r \in InFlight : GetProcessedDataResponds(r)
    \/ \E r \in InFlight, error \in AxiosErrors : UploadFileFails(r, error)
    \/ HandleDeleteSession
    \/ DeleteWithoutSession
    \/ \E r \in InFlight : DeleteSessionResponds(r)
    \/ \E r \in InFlight, error \in AxiosErrors : DeleteSessionFails(r, error)
    \/ HandleResetSession
    \/ HandleGenerateChart
    \/ GenerateChartWithoutSession
    \/ DispatchGenerateChart
    \/ \E r \in InFlight : GenerateChartResponds(r)
    \/ \E r \in InFlight, error \in AxiosErrors : GenerateChartFails(r, error)
    \/ \E a \in ExportArgs : ExportData(a[1], a[2], a[3])
    \/ ExportCSV
    \/ ExportHTML
    \/ \E hook \in {"exportData", "exportCSV", "exportHTML"} : ExportWithoutSession(hook)
    \/ \E r \in InFlight : ExportDataResponds(r)
    \/ \E r \in InFlight, error \in AxiosErrors : ExportDataFails(r, error)
    \/ \E r \in InFlight : ExportFileResponds(r)
    \/ \E r \in InFlight, error \in AxiosErrors : ExportFileFails(r, error)
    \/ ChartViewerEffect

SpecHooks == InitHooks /\ [][NextHooks]_vars

-----------------------------------------------------------------------------
(* C25: no chart or export request without a session *)

SessionRequests == {"generateChart", "exportData", "exportCSV", "exportHTML"}

\* C25: in a step taken while session.sessionId is null no generateChart or
\* export request is sent and setIsExporting is dispatched only by an export
\* that completes; a hook that reports the missing session changes nothing
\* of the store and sends nothing; and a generateChart thunk dispatched while
\* sessionId or processedData is null sends nothing and is rejected in the
\* same step, leaving generateError = 'No session data available',
\* isGenerating = false and the rest of the chart, the session and the ui
\* slice unchanged.
C25_NothingWithoutSession ==
    [][/\ session.sessionId = NullStr =>
              /\ \A r \in Sent : r.kind \notin SessionRequests
              /\ Did("ui/setIsExporting")' =>
                     \E r \in Answered : r.kind \in SessionRequests
              /\ Did("message/error")' =>
                     /\ Sent = {} /\ Answered = {}
                     /\ UNCHANGED <<session, chart, ui, server>>
       /\ ((session.sessionId = NullStr \/ session.processedData = NullObj)
              /\ Did("chart/generateChart/pending")') =>
              /\ Did("chart/generateChart/rejected")'
              /\ Sent = {} /\ Answered = {}
              /\ chart' = [chart EXCEPT !.isGenerating = FALSE,
                                        !.generateError = "No session data available"]
              /\ UNCHANGED <<session, ui, server>>]_vars

\* The thunk was dispatched without a session while the chart of an earlier
\* session was still stored: it is rejected and the chart is kept
C25_Witness ==
    /\ session.sessionId = NullStr
    /\ Did("chart/generateChart/pending")
    /\ Did("chart/generateChart/rejected")
    /\ chart.generateError = "No session data available"
    /\ ~chart.isGenerating
    /\ chart.chartData # NullObj

-----------------------------------------------------------------------------
(* C26: a failed delete *)

\* C26: a step that dispatches deleteSession.rejected leaves the session
\* slice, the chart slice and the ui slice unchanged and does not
\* dispatch resetChart; a step that answers a DELETE dispatches resetChart
\* iff it dispatches deleteSession.fulfilled; and while session.sessionId is
\* null no DELETE is sent and handleDeleteSession, which only warns, changes
\* nothing.
C26_FailedDeleteChangesNothing ==
    [][/\ Did("session/deleteSession/rejected")' =>
              /\ UNCHANGED <<session, chart, ui>>
              /\ ~Did("chart/resetChart")'
              /\ Sent = {}
       /\ \A r \in Answered :
              r.kind = "deleteSession" =>
                  (Did("chart/resetChart")' <=> Did("session/deleteSession/fulfilled")')
       /\ session.sessionId = NullStr =>
              /\ \A r \in Sent : r.kind # "deleteSession"
              /\ ~Did("session/deleteSession/pending")'
              /\ Did("message/warning")' =>
                     /\ Sent = {} /\ Answered = {}
                     /\ UNCHANGED <<session, chart, ui, server>>]_vars

\* The delete of the loaded session failed while its chart was shown: the
\* session and the chart are still there
C26_Witness ==
    /\ Did("session/deleteSession/rejected")
    /\ session.sessionId # NullStr
    /\ PayloadOf("session/deleteSession/rejected") = session.sessionId
    /\ session.processedData # NullObj
    /\ chart.chartData # NullObj

-----------------------------------------------------------------------------
(* C27: ui.exportError after the exports *)

ExportRequests == {"exportData", "exportCSV", "exportHTML"}

\* The step downloads the exported file: the export it completes succeeded
ExportSucceeded == Did("apiService/downloadFile")

\* C27: when a step completes an export and leaves no export in flight,
\* ui.exportError is non-null after it iff that export failed.
C27_ExportErrorOfLastExport ==
    [][\A r \in Answered :
           (/\ r.kind \in ExportRequests
            /\ \A q \in BagToSet(inflight') : q.kind \notin ExportRequests) =>
               (ui'.exportError # NullStr <=> ~ExportSucceeded')]_vars

-----------------------------------------------------------------------------
(* C28: what ChartViewer renders *)

\* `if (generateError)`: null and the empty string are falsy
TruthyString(s) == s # NullStr /\ s # ""

\* A faulty variant of the render: a stored chart is shown before an error
ChartViewer_plotFirst(chartState) ==
    IF chartState.isGenerating THEN "loading"
    ELSE IF chartState.chartData # NullObj THEN "plot"
    ELSE IF TruthyString(chartState.generateError) THEN "error"
    ELSE "empty"

\* The branch of ChartViewer's render that returns
ChartViewer(chartState) ==
    IF chartState.isGenerating THEN "loading"
    ELSE IF TruthyString(chartState.generateError) THEN "error"
    ELSE IF chartState.chartData = NullObj THEN "empty"
    ELSE "plot"

\* C28: ChartViewer renders the loading view iff isGenerating; the error
\* view iff not isGenerating and generateError is non-null; the empty view
\* iff neither and chartData is null; and the plot iff isGenerating is false,
\* generateError is null and chartData is non-null.
C28_ViewByPrecedence ==
    LET view == ChartViewer(chart)
    IN  /\ view = "loading" <=> chart.isGenerating
        /\ view = "error" <=> (~chart.isGenerating /\ chart.generateError # NullStr)
        /\ view = "empty" <=> (/\ ~chart.isGenerating
                               /\ chart.generateError = NullStr
                               /\ chart.chartData = NullObj)
        /\ view = "plot" <=> (/\ ~chart.isGenerating
                              /\ chart.generateError = NullStr
                              /\ chart.chartData # NullObj)

\* The error view over the chart of an earlier successful generation
C28_Witness ==
    /\ session.processedData # NullObj
    /\ ChartViewer(chart) = "error"
    /\ chart.chartData # NullObj
    /\ Did("chart/generateChart/rejected")

====
